---- MODULE Spec2Model ----
(***************************************************************************)
(* A model of datman-niviz (niviz_rater): the QC index builder of          *)
(* niviz_rater/bin/init_db.py, the ORM schema of niviz_rater/models.py,    *)
(* the database binding of niviz_rater/utils.py and the request handlers   *)
(* of views.py.                                                            *)
(*                                                                         *)
(* Python values are modelled as follows.  A str is a TLA+ string          *)
(* (concatenation is \o).  A dict is a function whose DOMAIN is its key    *)
(* set.  A list or tuple is a sequence.  A raised exception is a record    *)
(* field `raised` naming the exception type ("" when nothing was raised).  *)
(***************************************************************************)
EXTENDS Integers, Sequences, FiniteSets, TLC

(***************************************************************************)
(* Bounds of the model.                                                    *)
(***************************************************************************)
\* the longest record list handed to build_qc_entities in SpecMatch
MaxRecords == 3
\* the most image descriptors (slots) of a component in SpecMatch
MaxSlots == 2
\* the most Entity rows of the database that SpecRender exports
MaxEntities == 3
\* the most files that get_qc_bidsfiles finds for a database
MaxFiles == 2
\* the most Components of a QC specification
MaxComponents == 2

VARIABLES
    \* SpecMatch: the arguments and the result of build_qc_entities
    bids_list,          \* image_list: the list of BIDSFile records
    config_component,   \* self: the ConfigComponent
    qc_out,             \* what build_qc_entities last returned or raised
    \* the logical databases: db_name -> the rows of each table of models.py
    dbs,
    \* SpecRender: what export_csv returned
    csv,
    \* Spec, SpecMain: the indexing runs of init_db.py
    config,             \* get_config(): db_name -> settings and what they name
    created,            \* the databases that make_database has created
    runs,               \* per invocation of init_db.py: its position and locals
    \* SpecServe: the request handlers of views.py in one server process
    bind_key,           \* table -> info['bind_key'], global to the process
    requests            \* per client: the request, the handler's position,
                        \* its locals and its response

matchVars == <<bids_list, config_component, qc_out>>
renderVars == <<csv>>
indexVars == <<config, created, runs>>
serveVars == <<bind_key, requests>>
vars ==
    <<bids_list, config_component, qc_out, dbs, csv, config, created, runs,
      bind_key, requests>>

(***************************************************************************)
(* Generic helpers.                                                        *)
(***************************************************************************)
Range(s) == {s[i] : i \in 1..Len(s)}

SeqsUpTo(S, n) == UNION {[1..k -> S] : k \in 0..n}

\* all dicts whose keys are among those of V, with a value of V[k] at key k
PartialMaps(V) ==
    UNION {{m \in [D -> UNION {V[k] : k \in DOMAIN V}] :
               \A k \in D : m[k] \in V[k]} : D \in SUBSET DOMAIN V}

(***************************************************************************)
(* Python's ordering of str, restricted to the strings that occur as       *)
(* attribute values (code-point order: digits < upper case < lower case).  *)
(***************************************************************************)
StringOrder == <<"01", "02", "T1", "mask">>

StrRank(s) == CHOOSE i \in 1..Len(StringOrder) : StringOrder[i] = s

\* Python's tuple comparison a < b for tuples of str of equal length
RECURSIVE TupleLess(_, _)
TupleLess(a, b) ==
    IF a = <<>> \/ b = <<>> THEN a = <<>> /\ b # <<>>
    ELSE IF Head(a) = Head(b) THEN TupleLess(Tail(a), Tail(b))
    ELSE StrRank(Head(a)) < StrRank(Head(b))

(***************************************************************************)
(* init_db.py: the entity matcher.                                         *)
(***************************************************************************)
\* dict(big, **small): big updated with the items of small
DictUpdate(big, small) ==
    [k \in DOMAIN big \cup DOMAIN small |->
        IF k \in DOMAIN small THEN small[k] ELSE big[k]]

\* a mutant: the items of big win over those of small
IsSubdictKeysOnly(big, small) ==
    [k \in DOMAIN big \cup DOMAIN small |->
        IF k \in DOMAIN big THEN big[k] ELSE small[k]] = big

\* _is_subdict(big, small)
IsSubdict(big, small) == DictUpdate(big, small) = big

\* _get_key(bidsfile, entities)
GetKey(bidsfile, entities) ==
    [i \in 1..Len(entities) |-> bidsfile.entities[entities[i]]]

\* sorted(files, key=...): Python's sort is stable; insertion after the last
\* element whose key is not greater keeps equal keys in input order
RECURSIVE InsertByKey(_, _, _)
InsertByKey(sorted, b, entities) ==
    IF sorted = <<>> THEN <<b>>
    ELSE IF TupleLess(GetKey(b, entities), GetKey(Head(sorted), entities))
         THEN <<b>> \o sorted
         ELSE <<Head(sorted)>> \o InsertByKey(Tail(sorted), b, entities)

RECURSIVE SortedByKey(_, _)
SortedByKey(files, entities) ==
    IF files = <<>> THEN <<>>
    ELSE InsertByKey(SortedByKey(SubSeq(files, 1, Len(files) - 1), entities),
                     files[Len(files)], entities)

\* itertools.groupby: maximal runs of consecutive elements with equal keys
RECURSIVE GroupBy(_, _)
GroupBy(files, entities) ==
    IF files = <<>> THEN <<>>
    ELSE LET rest == GroupBy(Tail(files), entities)
             k == GetKey(Head(files), entities)
         IN IF rest # <<>> /\ Head(rest).key = k
            THEN <<[key |-> k, group |-> <<Head(files)>> \o Head(rest).group]>>
                 \o Tail(rest)
            ELSE <<[key |-> k, group |-> <<Head(files)>>]>> \o rest

\* a mutant: groupby over the unsorted list
GroupByUnsorted(self, bidsfiles) ==
    GroupBy(SelectSeq(bidsfiles,
                      LAMBDA b : \A k \in Range(self.entities) :
                                    k \in DOMAIN b.entities),
            self.entities)

\* ConfigComponent._group_by_entities
GroupByEntities(self, bidsfiles) ==
    LET filtered == SelectSeq(bidsfiles,
                       LAMBDA b : \A k \in Range(self.entities) :
                                     k \in DOMAIN b.entities)
    IN GroupBy(SortedByKey(filtered, self.entities), self.entities)

\* a mutant: several matches are no error, the first one is taken
FindMatchesFirst(images, image_descriptor) ==
    LET matches == SelectSeq(images,
                      LAMBDA b : IsSubdict(b.entities, image_descriptor))
    IN [raised |-> "",
        match |-> IF matches = <<>> THEN <<>> ELSE <<matches[1]>>]

\* ConfigComponent.find_matches: raises ValueError on several matches,
\* returns None (here: no match, <<>>) on zero, else the one match
FindMatches(images, image_descriptor) ==
    LET matches == SelectSeq(images,
                      LAMBDA b : IsSubdict(b.entities, image_descriptor))
    IN IF Len(matches) > 1 THEN [raised |-> "ValueError", match |-> <<>>]
       ELSE [raised |-> "", match |-> matches]

\* a mutant: the matched images in the reverse of the slot order
RECURSIVE MatchedImagesReversed(_, _)
MatchedImagesReversed(group_entities, image_descriptors) ==
    IF image_descriptors = <<>> THEN [raised |-> "", matched |-> <<>>]
    ELSE LET m == FindMatches(group_entities, Head(image_descriptors))
         IN IF m.raised # "" THEN [raised |-> m.raised, matched |-> <<>>]
            ELSE LET rest == MatchedImagesReversed(group_entities,
                                                   Tail(image_descriptors))
                 IN IF rest.raised # "" THEN rest
                    ELSE [raised |-> "", matched |-> rest.matched \o m.match]

\* the matched_images of one group, None removed; raised as soon as one
\* descriptor raises
RECURSIVE MatchedImages(_, _)
MatchedImages(group_entities, image_descriptors) ==
    IF image_descriptors = <<>> THEN [raised |-> "", matched |-> <<>>]
    ELSE LET m == FindMatches(group_entities, Head(image_descriptors))
         IN IF m.raised # "" THEN [raised |-> m.raised, matched |-> <<>>]
            ELSE LET rest == MatchedImages(group_entities,
                                           Tail(image_descriptors))
                 IN IF rest.raised # "" THEN rest
                    ELSE [raised |-> "", matched |-> m.match \o rest.matched]

\* the QCEntity dataclass built from one group's matched images
QCEntity(self, matched_images) ==
    [images |-> [i \in 1..Len(matched_images) |-> matched_images[i].path],
     entities |-> [k \in Range(self.entities) |->
                      matched_images[1].entities[k]],
     tpl_name |-> self.name,
     tpl_column_name |-> self.column]

RECURSIVE BuildGroups(_, _)
BuildGroups(self, groups) ==
    IF groups = <<>> THEN [raised |-> "", qc_entities |-> <<>>]
    ELSE LET m == MatchedImages(Head(groups).group, self.image_descriptors)
         IN IF m.raised # "" THEN [raised |-> m.raised, qc_entities |-> <<>>]
            ELSE LET rest == BuildGroups(self, Tail(groups))
                 IN IF rest.raised # "" THEN rest
                    ELSE [raised |-> "",
                          qc_entities |->
                              (IF m.matched # <<>>
                               THEN <<QCEntity(self, m.matched)>>
                               ELSE <<>>) \o rest.qc_entities]

\* ConfigComponent.build_qc_entities
BuildQcEntities(self, images) ==
    BuildGroups(self, GroupByEntities(self, images))

(***************************************************************************)
(* SpecMatch: build_qc_entities as a function of its input.  Init draws a  *)
(* component and a record list; the actions apply build_qc_entities and    *)
(* permute the list.                                                       *)
(***************************************************************************)
\* the attribute values of the file records
AttrValues == [sub |-> {"01", "02"}, desc |-> {"T1", "mask"}]

\* the attribute maps of the records: complete ones, and one lacking "desc"
RecordEntities ==
    {m \in PartialMaps(AttrValues) :
        \/ DOMAIN m = {"sub", "desc"} /\ <<m.sub, m.desc>> # <<"02", "mask">>
        \/ m = [sub |-> "01"]}

\* the paths of the files found, one per file
Paths == <<"/d/f1.svg", "/d/f2.svg", "/d/f3.svg", "/d/f4.svg", "/d/f5.svg">>

\* the slot patterns: the empty one, and one per image role
Descriptors == {<<>>, [desc |-> "T1"], [desc |-> "mask"]}

\* the group-by attribute lists: one key, and both
GroupByKeys == {<<"sub">>, <<"sub", "desc">>}

\* a template: tokens that are literal text or a $placeholder
Lit(s) == [var |-> FALSE, s |-> s]
Var(k) == [var |-> TRUE, s |-> k]

\* the slot lists of a component: every slot another pattern, or one
\* pattern named twice
SlotLists ==
    {d \in SeqsUpTo(Descriptors, MaxSlots) \ {<<>>} :
        \/ \A i, j \in 1..Len(d) : d[i] = d[j] => i = j
        \/ Len(d) = 2 /\ d[1] = d[2]}

MatchComponents ==
    {[entities |-> e, name |-> <<Lit("qc")>>, column |-> <<Lit("col")>>,
      image_descriptors |-> d, available_ratings |-> <<>>] :
        e \in GroupByKeys, d \in SlotLists}

NoResult == [raised |-> "unset", qc_entities |-> <<>>]

MatchIdle ==
    /\ bids_list = <<>>
    /\ config_component = <<>>
    /\ qc_out = <<>>

IndexIdle ==
    /\ config = <<>>
    /\ created = {}
    /\ runs = <<>>

ServeIdle ==
    /\ bind_key = <<>>
    /\ requests = <<>>

MatchInit ==
    /\ dbs = <<>>
    /\ csv = ""
    /\ IndexIdle
    /\ ServeIdle
    /\ config_component \in MatchComponents
    /\ \E ents \in SeqsUpTo(RecordEntities, MaxRecords) :
          bids_list = [i \in 1..Len(ents) |->
                          [entities |-> ents[i], path |-> Paths[i]]]
    /\ qc_out = NoResult

\* a call of build_qc_entities on the list as it stands
MBuild ==
    /\ qc_out' = BuildQcEntities(config_component, bids_list)
    /\ UNCHANGED <<bids_list, config_component, dbs, csv, indexVars, serveVars>>

\* the same records in another order: two neighbours swapped
MPermute ==
    \E i \in 1..(Len(bids_list) - 1) :
        /\ bids_list' = [bids_list EXCEPT ![i] = bids_list[i + 1],
                                          ![i + 1] = bids_list[i]]
        /\ UNCHANGED <<config_component, qc_out, dbs, csv, indexVars, serveVars>>

MatchNext == MBuild \/ MPermute

SpecMatch == MatchInit /\ [][MatchNext]_vars

\* a dict without one of its keys
WithoutKey(d, k) == [j \in DOMAIN d \ {k} |-> d[j]]

\* C9: a record matches a slot descriptor exactly when every key of the
\* pattern is in the record's attribute map with an equal value; a key of
\* the record that the pattern does not name never changes the result, and
\* the empty pattern matches every record.
C9_SubdictIsExactSubset ==
    \A i \in 1..Len(bids_list) :
      \A d \in Range(config_component.image_descriptors) :
        LET big == bids_list[i].entities
        IN /\ IsSubdict(big, d) <=>
                 (\A k \in DOMAIN d : k \in DOMAIN big /\ big[k] = d[k])
           /\ \A k \in DOMAIN big \ DOMAIN d :
                 IsSubdict(WithoutKey(big, k), d) <=> IsSubdict(big, d)
           /\ (DOMAIN d = {} => IsSubdict(big, d))

\* C9 witness: after a build that bound a slot, the list holds a record that
\* matches a pattern while carrying a key the pattern does not name, one
\* that fails on a differing value and one that fails on an absent key.
C9_Witness ==
    /\ qc_out.raised = "" /\ qc_out.qc_entities # <<>>
    /\ \E d \in Range(config_component.image_descriptors) :
        /\ DOMAIN d # {}
        /\ \E i \in 1..Len(bids_list) :
              /\ IsSubdict(bids_list[i].entities, d)
              /\ DOMAIN bids_list[i].entities \ DOMAIN d # {}
        /\ \E i \in 1..Len(bids_list) :
              /\ DOMAIN d \subseteq DOMAIN bids_list[i].entities
              /\ ~IsSubdict(bids_list[i].entities, d)
        /\ \E i \in 1..Len(bids_list) :
              ~(DOMAIN d \subseteq DOMAIN bids_list[i].entities)

\* the (group-by key values -> image list and attribute map) pairs of a result
QcPairs(r) ==
    {[entities |-> q.entities, images |-> q.images] :
        q \in Range(r.qc_entities)}

\* C10: build_qc_entities on a permutation of a record list raises exactly
\* when it raises on the list, and otherwise yields the same set of
\* (group-by key values -> image list and attribute map) pairs: the result
\* obtained from an earlier order of the records is that of the present one.
C10_GroupingOrderIndependent ==
    qc_out # NoResult =>
        LET now == BuildQcEntities(config_component, bids_list)
        IN /\ (now.raised # "") <=> (qc_out.raised # "")
           /\ QcPairs(now) = QcPairs(qc_out)

\* C10 witness: the records are no longer in the order they were found in,
\* the list is not sorted by group key, and a build yielded two entities,
\* one of them with two images.
C10_Witness ==
    /\ qc_out.raised = ""
    /\ Len(qc_out.qc_entities) >= 2
    /\ \E q \in Range(qc_out.qc_entities) : Len(q.images) = 2
    /\ \E i \in 1..Len(bids_list) : bids_list[i].path # Paths[i]
    /\ LET e == config_component.entities
           f == SelectSeq(bids_list,
                    LAMBDA b : \A k \in Range(e) : k \in DOMAIN b.entities)
       IN \E i \in 1..(Len(f) - 1) : TupleLess(GetKey(f[i + 1], e), GetKey(f[i], e))

\* the records that have every group-by attribute key
Eligible(self, files) ==
    {i \in 1..Len(files) : Range(self.entities) \subseteq DOMAIN files[i].entities}

\* the distinct group-by key tuples of the eligible records
KeyTuples(self, files) ==
    {[n \in 1..Len(self.entities) |-> files[i].entities[self.entities[n]]] :
        i \in Eligible(self, files)}

\* the records of the group of a key tuple that carry every item of a slot
\* descriptor
SlotMatches(self, files, key, d) ==
    {i \in Eligible(self, files) :
        /\ \A n \in 1..Len(self.entities) :
              files[i].entities[self.entities[n]] = key[n]
        /\ \A k \in DOMAIN d :
              k \in DOMAIN files[i].entities /\ files[i].entities[k] = d[k]}

\* the paths of the slots that one record matches, in slot order
RECURSIVE ResolvedPaths(_, _, _, _)
ResolvedPaths(self, files, key, descriptors) ==
    IF descriptors = <<>> THEN <<>>
    ELSE LET m == SlotMatches(self, files, key, Head(descriptors))
         IN (IF Cardinality(m) = 1
             THEN <<files[CHOOSE i \in m : TRUE].path>> ELSE <<>>)
            \o ResolvedPaths(self, files, key, Tail(descriptors))

\* what the result holds for every key tuple: one QCEntity with the paths
\* of the resolved slots in slot order when a slot has exactly one match,
\* none when every slot has no match; and nothing for any other tuple
OnePerResolvedGroup(self, files, result) ==
    /\ \A key \in KeyTuples(self, files) :
          LET descriptors == self.image_descriptors
              counts == {Cardinality(SlotMatches(self, files, key,
                                                 descriptors[n])) :
                            n \in 1..Len(descriptors)}
              values == [n \in 1..Len(self.entities) |-> key[n]]
              mine == {n \in 1..Len(result.qc_entities) :
                          GetKey(result.qc_entities[n], self.entities)
                              = values}
              paths == ResolvedPaths(self, files, key, descriptors)
          IN /\ 1 \in counts =>
                   /\ Cardinality(mine) = 1
                   /\ \A n \in mine :
                         /\ result.qc_entities[n].images = paths
                         /\ Len(result.qc_entities[n].images)
                               = Cardinality({d \in 1..Len(descriptors) :
                                     Cardinality(SlotMatches(self, files, key,
                                         descriptors[d])) = 1})
             /\ counts \subseteq {0} => mine = {}
    /\ \A n \in 1..Len(result.qc_entities) :
          /\ DOMAIN result.qc_entities[n].entities = Range(self.entities)
          /\ GetKey(result.qc_entities[n], self.entities)
                \in KeyTuples(self, files)

\* a slot of a group has two or more matching records
SomeSlotAmbiguous(self, files) ==
    \E key \in KeyTuples(self, files) :
        \E n \in 1..Len(self.image_descriptors) :
            Cardinality(SlotMatches(self, files, key,
                                    self.image_descriptors[n])) > 1

\* C11, as stated: whatever the records, the result of build_qc_entities
\* holds exactly one QCEntity for each group-by key tuple of which a slot
\* has exactly one matching record, with the paths of the resolved slots in
\* slot order, and none for a tuple of which every slot has no match.
C11_OnePerResolvedGroupAlways ==
    qc_out # NoResult =>
        OnePerResolvedGroup(config_component, bids_list, qc_out)

\* C11, amended: when no slot of any group has two or more matching
\* records, build_qc_entities returns, and its result holds exactly one
\* QCEntity for each group-by key tuple of which a slot has exactly one
\* matching record, with the paths of the resolved slots in slot order,
\* and none for a tuple of which every slot has no match; when some slot
\* has two or more, it raises ValueError and returns nothing.
C11_OnePerResolvedGroup ==
    qc_out # NoResult =>
        IF SomeSlotAmbiguous(config_component, bids_list)
        THEN qc_out.raised = "ValueError" /\ qc_out.qc_entities = <<>>
        ELSE /\ qc_out.raised = ""
             /\ OnePerResolvedGroup(config_component, bids_list, qc_out)

\* C11 witness: a build returned an entity for a group with a resolved and
\* an unresolved slot, and none for a group that matched no slot.
C11_Witness ==
    /\ qc_out # NoResult
    /\ qc_out.raised = ""
    /\ ~SomeSlotAmbiguous(config_component, bids_list)
    /\ \E q \in Range(qc_out.qc_entities) :
          /\ Len(q.images) >= 1
          /\ Len(q.images) < Len(config_component.image_descriptors)
    /\ \E key \in KeyTuples(config_component, bids_list) :
          \A q \in Range(qc_out.qc_entities) :
              GetKey(q, config_component.entities) # key

(***************************************************************************)
(* models.py: the tables of one logical database.  A table is the sequence *)
(* of its rows in insertion order.                                         *)
(***************************************************************************)
\* Python's None in a nullable str or Boolean column
PyNone == "None"

\* NULL in the nullable integer column Entity.rating_id
NullId == 0

\* a database whose tables make_tables has created and nothing has filled
EmptyDb ==
    [component |-> <<>>, rating |-> <<>>, tablerow |-> <<>>,
     tablecolumn |-> <<>>, entity |-> <<>>, image |-> <<>>]

\* the (study, pipeline) pairs of the configuration, as f"{study}_{pipeline}"
DbNames == {"SPINS_qc", "OPT_qc"}

\* the elements of a finite set as a sequence, in some fixed order
RECURSIVE SetToSeq(_)
SetToSeq(S) ==
    IF S = {} THEN <<>>
    ELSE LET x == CHOOSE x \in S : TRUE IN <<x>> \o SetToSeq(S \ {x})

\* every order of the elements of a sequence
Orderings(s) ==
    {t \in [1..Len(s) -> Range(s)] :
        \A i, j \in 1..Len(s) : i # j => t[i] # t[j]}

(***************************************************************************)
(* views.py: the table renderer behind /api/export.                        *)
(***************************************************************************)
\* the database's ordering (ORDER BY) of the column names that occur
NameOrder == <<"anat", "dwi", "func">>

NameRank(n) == CHOOSE i \in 1..Len(NameOrder) : NameOrder[i] = n

\* ORDER BY over <<key, row>> pairs; rows with equal keys keep their order
RECURSIVE InsertByName(_, _)
InsertByName(sorted, x) ==
    IF sorted = <<>> THEN <<x>>
    ELSE IF NameRank(x[1]) < NameRank(Head(sorted)[1])
         THEN <<x>> \o sorted
         ELSE <<Head(sorted)>> \o InsertByName(Tail(sorted), x)

RECURSIVE OrderByKey(_)
OrderByKey(pairs) ==
    IF pairs = <<>> THEN <<>>
    ELSE InsertByName(OrderByKey(SubSeq(pairs, 1, Len(pairs) - 1)),
                      pairs[Len(pairs)])

\* TableColumn.query.order_by(TableColumn.name).all()
ColumnsByName(S) ==
    LET sorted == OrderByKey([i \in 1..Len(S.tablecolumn) |->
                                <<S.tablecolumn[i].name, S.tablecolumn[i]>>])
    IN [i \in 1..Len(sorted) |-> sorted[i][2]]

\* TableRow.entities: relationship('Entity', order_by='Entity.columnname')
RowEntities(S, row) ==
    LET mine == SelectSeq(S.entity, LAMBDA e : e.rowname = row.name)
        sorted == OrderByKey([i \in 1..Len(mine) |->
                                <<mine[i].columnname, mine[i]>>])
    IN [i \in 1..Len(sorted) |-> sorted[i][2]]

\* Entity.rating: relationship('Rating', uselist=False), <<>> for None
EntityRating(S, e) == SelectSeq(S.rating, LAMBDA r : r.id = e.rating_id)

\* Entity.has_failed
HasFailed(e) ==
    IF e.failed = "True" THEN "Fail"
    ELSE IF e.failed = "False" THEN "Pass"
    ELSE ""

\* a mutant: the rating name where the comment belongs
EntryCommentLost(S, e) ==
    LET rating == EntityRating(S, e)
        name == IF rating # <<>> THEN rating[1].name ELSE ""
    IN <<name, HasFailed(e), name>>

\* Entity.entry
Entry(S, e) ==
    LET rating == EntityRating(S, e)
    IN <<IF rating # <<>> THEN rating[1].name ELSE "",
         HasFailed(e),
         IF e.comment = PyNone \/ e.comment = "" THEN "" ELSE e.comment>>

\* str.join
RECURSIVE Join(_, _)
Join(entries, sep) ==
    IF entries = <<>> THEN ""
    ELSE IF Len(entries) = 1 THEN entries[1]
    ELSE entries[1] \o sep \o Join(Tail(entries), sep)

\* a mutant: the cursor moves on at every column
RECURSIVE MakeRowEntriesAlwaysAdvance(_, _, _, _)
MakeRowEntriesAlwaysAdvance(S, entities, columns, p) ==
    IF columns = <<>> THEN <<>>
    ELSE IF p + 1 <= Len(entities)
         THEN IF entities[p + 1].columnname = Head(columns).name
              THEN Entry(S, entities[p + 1])
                   \o MakeRowEntriesAlwaysAdvance(S, entities, Tail(columns), p + 1)
              ELSE <<"", "", "">>
                   \o MakeRowEntriesAlwaysAdvance(S, entities, Tail(columns), p + 1)
         ELSE <<"", "", "">>
              \o MakeRowEntriesAlwaysAdvance(S, entities, Tail(columns), p)

\* a mutant: the cursor steps over an entity whose column has gone by
RECURSIVE MakeRowEntriesSkipStale(_, _, _, _)
MakeRowEntriesSkipStale(S, entities, columns, p) ==
    IF columns = <<>> THEN <<>>
    ELSE IF p + 1 <= Len(entities)
         THEN IF entities[p + 1].columnname = Head(columns).name
              THEN Entry(S, entities[p + 1])
                   \o MakeRowEntriesSkipStale(S, entities, Tail(columns), p + 1)
              ELSE IF NameRank(entities[p + 1].columnname)
                         < NameRank(Head(columns).name)
              THEN MakeRowEntriesSkipStale(S, entities, columns, p + 1)
              ELSE <<"", "", "">>
                   \o MakeRowEntriesSkipStale(S, entities, Tail(columns), p)
         ELSE <<"", "", "">>
              \o MakeRowEntriesSkipStale(S, entities, Tail(columns), p)

\* _make_row: the loop over the columns from cursor p (0-based) on
RECURSIVE MakeRowEntries(_, _, _, _)
MakeRowEntries(S, entities, columns, p) ==
    IF columns = <<>> THEN <<>>
    ELSE IF p + 1 <= Len(entities)
         THEN IF entities[p + 1].columnname = Head(columns).name
              THEN Entry(S, entities[p + 1])
                   \o MakeRowEntries(S, entities, Tail(columns), p + 1)
              ELSE <<"", "", "">>
                   \o MakeRowEntries(S, entities, Tail(columns), p)
         ELSE <<"", "", "">> \o MakeRowEntries(S, entities, Tail(columns), p)

\* _make_row
MakeRow(S, row, columns) ==
    Join(<<row.name>> \o MakeRowEntries(S, RowEntities(S, row), columns, 0),
         "\t")

\* export_csv, with row_items what TableRow.query.all() returned
ExportCsv(S, row_items) ==
    LET columns == ColumnsByName(S)
        rows == [i \in 1..Len(row_items) |-> MakeRow(S, row_items[i], columns)]
        header == [i \in 1..Len(columns) |->
                      columns[i].name \o "\t" \o columns[i].name
                      \o "_passfail\t" \o columns[i].name \o "_comment"]
    IN Join(<<Join(<<"subjects">> \o header, "\t")>> \o rows, "\n")

(***************************************************************************)
(* SpecRender: export_csv over the databases that the schema allows.  Init *)
(* draws the Entity rows, and the TableRow and TableColumn rows that their *)
(* foreign keys need and any further ones; the action is the export.       *)
(***************************************************************************)
RenderDb == "SPINS_qc"

RowNames == {"sub-01", "sub-02"}

ColumnNames == Range(NameOrder)

RenderRatings ==
    <<[id |-> 1, name |-> "Good", component_id |-> 1],
      [id |-> 2, name |-> "Bad", component_id |-> 1]>>

\* what update_rating can have left in an entity: nothing, a pass whose
\* comment was set to null, a fail with a comment
EntityStates ==
    {[rating_id |-> NullId, failed |-> PyNone, comment |-> ""],
     [rating_id |-> 1, failed |-> "False", comment |-> PyNone],
     [rating_id |-> 2, failed |-> "True", comment |-> "motion"]}

\* the entities of sub-01 in every state, those of sub-02 rated as failed
EntityChoices ==
    {ch \in [rowname : RowNames, columnname : ColumnNames,
             state : EntityStates] :
        ch.rowname = "sub-02" => ch.state.failed = "True"}

RenderEntity(i, ch) ==
    [id |-> i, name |-> "qc", columnname |-> ch.columnname,
     rowname |-> ch.rowname, component_id |-> 1,
     comment |-> ch.state.comment, failed |-> ch.state.failed,
     rating_id |-> ch.state.rating_id]

RenderInit ==
    /\ MatchIdle
    /\ IndexIdle
    /\ ServeIdle
    /\ csv = ""
    /\ \E chs \in SeqsUpTo(EntityChoices, MaxEntities) :
       \E rows \in SUBSET RowNames, cols \in SUBSET ColumnNames :
          /\ {chs[i].rowname : i \in 1..Len(chs)} \subseteq rows
          /\ {chs[i].columnname : i \in 1..Len(chs)} \subseteq cols
          /\ dbs = [n \in DbNames |->
                IF n # RenderDb THEN EmptyDb
                ELSE [component |-> <<[id |-> 1]>>,
                      rating |-> RenderRatings,
                      tablerow |-> [i \in 1..Cardinality(rows) |->
                                      [name |-> SetToSeq(rows)[i]]],
                      tablecolumn |-> [i \in 1..Cardinality(cols) |->
                                         [name |-> SetToSeq(cols)[i]]],
                      entity |-> [i \in 1..Len(chs) |-> RenderEntity(i, chs[i])],
                      image |-> <<>>]]

\* GET /api/export: the rows come in whatever order the database returns
RExportCsv ==
    /\ \E row_items \in Orderings(dbs[RenderDb].tablerow) :
          csv' = ExportCsv(dbs[RenderDb], row_items)
    /\ UNCHANGED <<matchVars, dbs, indexVars, serveVars>>

RenderNext == RExportCsv

SpecRender == RenderInit /\ [][RenderNext]_vars

\* the entities of a row, as a set
EntitiesOfRow(S, row) == {e \in Range(S.entity) : e.rowname = row.name}

\* at most one entity of the row per column
OnePerColumn(S, row) ==
    \A e1, e2 \in EntitiesOfRow(S, row) :
        e1.columnname = e2.columnname => e1 = e2

\* the (rating name or "", "Fail"/"Pass"/"", comment or "") of an entity
Triplet(S, e) ==
    <<IF e.rating_id = NullId THEN ""
      ELSE (CHOOSE r \in Range(S.rating) : r.id = e.rating_id).name,
      CASE e.failed = "True" -> "Fail"
        [] e.failed = "False" -> "Pass"
        [] OTHER -> "",
      IF e.comment = PyNone THEN "" ELSE e.comment>>

\* the names of the TableColumn rows in ascending order
SortedColumnNames(S) ==
    SelectSeq(NameOrder, LAMBDA n : \E c \in Range(S.tablecolumn) : c.name = n)

\* per column in order: the triplet of the row's entity there, or three ""
RECURSIVE ExpectedCells(_, _, _)
ExpectedCells(S, row, names) ==
    IF names = <<>> THEN <<>>
    ELSE LET es == {e \in EntitiesOfRow(S, row) : e.columnname = Head(names)}
         IN (IF es = {} THEN <<"", "", "">>
             ELSE Triplet(S, CHOOSE e \in es : TRUE))
            \o ExpectedCells(S, row, Tail(names))

ExpectedLine(S, row) ==
    Join(<<row.name>> \o ExpectedCells(S, row, SortedColumnNames(S)), "\t")

ExpectedHeader(S) ==
    LET names == SortedColumnNames(S)
    IN Join(<<"subjects">> \o
            [i \in 1..Len(names) |->
                Join(<<names[i], names[i] \o "_passfail",
                       names[i] \o "_comment">>, "\t")], "\t")

\* C7: for a row with at most one entity per column (its entity list is in
\* column-name order and names only existing columns), _make_row over the
\* name-sorted columns emits, per column in order, the triplet of the row's
\* entity in that column, or ("", "", "") where it has none; and the export
\* of a database whose rows are all such is the header and those lines.
C7_MakeRowAligned ==
    LET S == dbs[RenderDb]
    IN /\ \A row \in Range(S.tablerow) :
            OnePerColumn(S, row) =>
                MakeRow(S, row, ColumnsByName(S)) = ExpectedLine(S, row)
       /\ (csv # "" /\ \A row \in Range(S.tablerow) : OnePerColumn(S, row)) =>
            \E row_items \in Orderings(S.tablerow) :
                csv = Join(<<ExpectedHeader(S)>> \o
                           [i \in 1..Len(row_items) |->
                               ExpectedLine(S, row_items[i])], "\n")

\* C7 witness: an export of columns [anat, dwi, func] with a row that has
\* rated entities in anat and func only.
C7_Witness ==
    LET S == dbs[RenderDb]
    IN /\ csv # ""
       /\ SortedColumnNames(S) = NameOrder
       /\ \E row \in Range(S.tablerow) :
            /\ OnePerColumn(S, row)
            /\ {e.columnname : e \in EntitiesOfRow(S, row)} = {"anat", "func"}
            /\ \A e \in EntitiesOfRow(S, row) : e.rating_id # NullId

\* the first place of the list whose neighbour is in the same column
FirstDuplicate(es) ==
    CHOOSE d \in 1..(Len(es) - 1) :
        /\ es[d].columnname = es[d + 1].columnname
        /\ \A i \in 1..(d - 1) : es[i].columnname # es[i + 1].columnname

\* per column in order: up to the column of es[d] the triplet of the
\* entity of the list there, or three ""; after it three "" and no more
RECURSIVE TruncatedCells(_, _, _, _)
TruncatedCells(S, es, d, names) ==
    IF names = <<>> THEN <<>>
    ELSE LET here == {i \in 1..d : es[i].columnname = Head(names)}
         IN (IF here = {} THEN <<"", "", "">>
             ELSE Triplet(S, es[CHOOSE i \in here : TRUE]))
            \o TruncatedCells(S, es, d, Tail(names))

TruncatedLine(S, row) ==
    LET es == RowEntities(S, row)
    IN Join(<<row.name>>
            \o TruncatedCells(S, es, FirstDuplicate(es), SortedColumnNames(S)),
            "\t")

\* C17: for a row whose column-ordered entity list has two entities of one
\* column, _make_row emits the cells up to that column as for any row, the
\* triplet of the first of the two in their column, and three empty fields
\* for every later column: the second one and every entity of a later
\* column are not in the line; the export is made of such lines and raises
\* nothing.
C17_DuplicateColumnTruncates ==
    LET S == dbs[RenderDb]
    IN /\ \A row \in Range(S.tablerow) :
            ~OnePerColumn(S, row) =>
                MakeRow(S, row, ColumnsByName(S)) = TruncatedLine(S, row)
       /\ csv # "" =>
            \E row_items \in Orderings(S.tablerow) :
                csv = Join(<<ExpectedHeader(S)>> \o
                           [i \in 1..Len(row_items) |->
                               IF OnePerColumn(S, row_items[i])
                               THEN ExpectedLine(S, row_items[i])
                               ELSE TruncatedLine(S, row_items[i])], "\n")

\* C17 witness: an export of columns [anat, dwi, func] with a row of two
\* entities in anat, the first of them rated, and a rated entity in func.
C17_Witness ==
    LET S == dbs[RenderDb]
    IN /\ csv # ""
       /\ SortedColumnNames(S) = NameOrder
       /\ \E row \in Range(S.tablerow) :
            LET es == RowEntities(S, row)
            IN /\ Len(es) = 3
               /\ es[1].columnname = "anat" /\ es[1].rating_id # NullId
               /\ es[2].columnname = "anat" /\ es[2].comment = "motion"
               /\ es[3].columnname = "func" /\ es[3].rating_id # NullId

(***************************************************************************)
(* SpecText: export_csv over databases whose comments are any text that    *)
(* update_rating stores: setattr(entity, "comment", data["comment"]) takes *)
(* the string of the request as it is.                                     *)
(***************************************************************************)
\* comments of a request: none, one word, one with a tab, one of two lines
TextComments == {"", "head\tmotion", "moved\nredo"}

TextChoices ==
    {[rowname |-> r, columnname |-> c,
      state |-> [rating_id |-> NullId, failed |-> PyNone, comment |-> t]] :
        r \in RowNames, c \in ColumnNames, t \in TextComments}

TextInit ==
    /\ MatchIdle
    /\ IndexIdle
    /\ ServeIdle
    /\ csv = ""
    /\ \E chs \in SeqsUpTo(TextChoices, MaxEntities) :
          dbs = [n \in DbNames |->
             IF n # RenderDb THEN EmptyDb
             ELSE [component |-> <<[id |-> 1]>>,
                   rating |-> RenderRatings,
                   tablerow |-> [i \in 1..Cardinality(RowNames) |->
                                   [name |-> SetToSeq(RowNames)[i]]],
                   tablecolumn |-> [i \in 1..Cardinality(ColumnNames) |->
                                      [name |-> SetToSeq(ColumnNames)[i]]],
                   entity |-> [i \in 1..Len(chs) |-> RenderEntity(i, chs[i])],
                   image |-> <<>>]]

SpecText == TextInit /\ [][RenderNext]_vars

\* str.split: the pieces of a text between the separators
RECURSIVE Split(_, _)
Split(text, sep) ==
    LET at == {i \in 1..Len(text) : SubSeq(text, i, i) = sep}
    IN IF at = {} THEN <<text>>
       ELSE LET i == CHOOSE j \in at : \A k \in at : j <= k
            IN <<SubSeq(text, 1, i - 1)>>
               \o Split(SubSeq(text, i + 1, Len(text)), sep)

\* the lines of the export, each one as its fields
ExportedFields(text) ==
    LET lines == Split(text, "\n")
    IN [i \in 1..Len(lines) |-> Split(lines[i], "\t")]

\* C18, as stated: the list that _make_row joins has 1 + 3 * |columns|
\* entries for every row, and the export is the header line and one line
\* per row, each of as many fields as the header.
C18_LinesHaveHeaderFields ==
    LET S == dbs[RenderDb]
        columns == ColumnsByName(S)
    IN /\ \A row \in Range(S.tablerow) :
            Len(<<row.name>>
                \o MakeRowEntries(S, RowEntities(S, row), columns, 0))
               = 1 + 3 * Len(columns)
       /\ csv # "" =>
            LET fields == ExportedFields(csv)
            IN /\ Len(fields) = 1 + Len(S.tablerow)
               /\ \A i \in 1..Len(fields) :
                     Len(fields[i]) = 1 + 3 * Len(columns)

\* C18 witness of the failure: the export has a line of more fields than
\* the header, or a line of fewer.
C18_LineOffGrid ==
    /\ csv # ""
    /\ LET fields == ExportedFields(csv)
       IN /\ \E i \in 2..Len(fields) : Len(fields[i]) > Len(fields[1])
          /\ \E i \in 2..Len(fields) : Len(fields[i]) < Len(fields[1])

(***************************************************************************)
(* init_db.py: string.Template and the name resolver.                      *)
(***************************************************************************)
\* Template(tpl).substitute(mapping): KeyError at a placeholder that the
\* mapping lacks
RECURSIVE Substitute(_, _)
Substitute(tpl, mapping) ==
    IF tpl = <<>> THEN [raised |-> "", value |-> ""]
    ELSE LET t == Head(tpl)
             rest == Substitute(Tail(tpl), mapping)
         IN IF t.var /\ t.s \notin DOMAIN mapping
            THEN [raised |-> "KeyError", value |-> ""]
            ELSE IF rest.raised # "" THEN rest
            ELSE [raised |-> "",
                  value |-> (IF t.var THEN mapping[t.s] ELSE t.s) \o rest.value]

\* AxisNameTpl
AxisNameTpl(tpl, entities) == [tpl |-> tpl, entities |-> entities]

\* build_index: row_tpl
RowTpl(spec) ==
    AxisNameTpl(spec.RowDescription.name, spec.RowDescription.entities)

\* make_rowname(rowtpl, entities)
MakeRowname(rowtpl, entities) ==
    Substitute(rowtpl.tpl,
               [k \in DOMAIN entities \cap Range(rowtpl.entities) |->
                   entities[k]])

\* QCEntity.name
QcName(e) == Substitute(e.tpl_name, e.entities)

\* QCEntity.column_name
QcColumnName(e) == Substitute(e.tpl_column_name, e.entities)

\* set([make_rowname(row_tpl, e.entities) for e in entities])
UniqueRows(row_tpl, entities) ==
    LET names == [i \in 1..Len(entities) |->
                     MakeRowname(row_tpl, entities[i].entities)]
    IN IF \E i \in 1..Len(names) : names[i].raised # ""
       THEN [raised |-> "KeyError", names |-> {}]
       ELSE [raised |-> "", names |-> {names[i].value : i \in 1..Len(names)}]

\* set([e.column_name for e in entities])
UniqueCols(entities) ==
    LET names == [i \in 1..Len(entities) |-> QcColumnName(entities[i])]
    IN IF \E i \in 1..Len(names) : names[i].raised # ""
       THEN [raised |-> "KeyError", names |-> {}]
       ELSE [raised |-> "", names |-> {names[i].value : i \in 1..Len(names)}]

(***************************************************************************)
(* models.py and the session: what a commit does to one logical database.  *)
(* A commit that violates a constraint raises IntegrityError and leaves    *)
(* the database as it was.                                                 *)
(***************************************************************************)
\* add_component: Component(), id from the sequence
InsertComponent(S) ==
    [S EXCEPT !.component = Append(@, [id |-> Len(@) + 1])]

\* add_ratings: one Rating(name, component_id)
InsertRating(S, name, component_id) ==
    [S EXCEPT !.rating = Append(@, [id |-> Len(@) + 1, name |-> name,
                                    component_id |-> component_id])]

\* a mutant: TableRow.name is no primary key
InsertTableRowNoKey(S, name) ==
    [raised |-> "",
     db |-> [S EXCEPT !.tablerow = Append(@, [name |-> name])]]

\* commit of TableRow(name): name is the primary key
InsertTableRow(S, name) ==
    IF \E t \in Range(S.tablerow) : t.name = name
    THEN [raised |-> "IntegrityError", db |-> S]
    ELSE [raised |-> "",
          db |-> [S EXCEPT !.tablerow = Append(@, [name |-> name])]]

\* commit of TableColumn(name) for every name: name is the primary key
InsertTableColumns(S, names) ==
    IF \E t \in Range(S.tablecolumn) : t.name \in names
    THEN [raised |-> "IntegrityError", db |-> S]
    ELSE [raised |-> "",
          db |-> [S EXCEPT !.tablecolumn =
                     @ \o [i \in 1..Cardinality(names) |->
                              [name |-> SetToSeq(names)[i]]]]]

\* a mutant: one Entity per Component, row and column
InsertEntityUniqueCell(S, name, component_id, rowname, columnname) ==
    IF \E e \in Range(S.entity) : /\ e.component_id = component_id
                                  /\ e.rowname = rowname
                                  /\ e.columnname = columnname
    THEN [raised |-> "IntegrityError", db |-> S]
    ELSE [raised |-> "",
          db |-> [S EXCEPT !.entity =
                     Append(@, [id |-> Len(@) + 1, name |-> name,
                                columnname |-> columnname,
                                rowname |-> rowname,
                                component_id |-> component_id,
                                comment |-> "", failed |-> PyNone,
                                rating_id |-> NullId])]]

\* a mutant: row and column name change places, and no key is checked
InsertEntitySwapped(S, name, component_id, rowname, columnname) ==
    [raised |-> "",
     db |-> [S EXCEPT !.entity =
                Append(@, [id |-> Len(@) + 1, name |-> name,
                           columnname |-> rowname,
                           rowname |-> columnname,
                           component_id |-> component_id,
                           comment |-> "", failed |-> PyNone,
                           rating_id |-> NullId])]]

\* commit of Entity(name, component_id, rowname, columnname): the foreign
\* keys must exist; comment defaults to "", failed and rating_id to NULL
InsertEntity(S, name, component_id, rowname, columnname) ==
    IF \/ ~\E c \in Range(S.component) : c.id = component_id
       \/ ~\E t \in Range(S.tablerow) : t.name = rowname
       \/ ~\E t \in Range(S.tablecolumn) : t.name = columnname
    THEN [raised |-> "IntegrityError", db |-> S]
    ELSE [raised |-> "",
          db |-> [S EXCEPT !.entity =
                     Append(@, [id |-> Len(@) + 1, name |-> name,
                                columnname |-> columnname,
                                rowname |-> rowname,
                                component_id |-> component_id,
                                comment |-> "", failed |-> PyNone,
                                rating_id |-> NullId])]]

\* a mutant: no UniqueConstraint(path)
PathConflictNever(S, paths) == FALSE

\* UniqueConstraint(path): a path that is in the table, or twice in the commit
PathConflict(S, paths) ==
    \/ \E i \in 1..Len(paths) : \E im \in Range(S.image) : im.path = paths[i]
    \/ \E i, j \in 1..Len(paths) : i # j /\ paths[i] = paths[j]

\* a mutant: a failed commit of the images takes their Entity back
InsertImagesRollback(S, paths, entity_id) ==
    IF PathConflict(S, paths)
    THEN [raised |-> "IntegrityError",
          db |-> [S EXCEPT !.entity =
                     SelectSeq(@, LAMBDA e : e.id # entity_id)]]
    ELSE [raised |-> "",
          db |-> [S EXCEPT !.image =
                     @ \o [i \in 1..Len(paths) |->
                              [id |-> Len(S.image) + i, path |-> paths[i],
                               entity_id |-> entity_id]]]]

\* commit of Image(path, entity_id) for every path
InsertImages(S, paths, entity_id) ==
    IF PathConflict(S, paths)
    THEN [raised |-> "IntegrityError", db |-> S]
    ELSE [raised |-> "",
          db |-> [S EXCEPT !.image =
                     @ \o [i \in 1..Len(paths) |->
                              [id |-> Len(S.image) + i, path |-> paths[i],
                               entity_id |-> entity_id]]]]

(***************************************************************************)
(* The configurations that the indexing runs read.                         *)
(***************************************************************************)
\* the files under base_dir: two images of sub-01, one of sub-02, and a
\* second T1 image of sub-01
IndexFiles ==
    <<[entities |-> [sub |-> "01", desc |-> "T1"],
       path |-> "/d/sub-01_desc-T1.svg"],
      [entities |-> [sub |-> "01", desc |-> "mask"],
       path |-> "/d/sub-01_desc-mask.svg"],
      [entities |-> [sub |-> "02", desc |-> "T1"],
       path |-> "/d/sub-02_desc-T1.svg"],
      [entities |-> [sub |-> "01", desc |-> "T1"],
       path |-> "/d/sub-01_run-2_desc-T1.svg"]>>

\* what layout.get can return: any of the files, in their order
FileLists ==
    {[i \in 1..Len(pick) |-> IndexFiles[pick[i]]] :
        pick \in {SelectSeq([i \in 1..Len(IndexFiles) |-> i],
                            LAMBDA i : i \in I) :
                     I \in {J \in SUBSET (1..Len(IndexFiles)) :
                               Cardinality(J) <= MaxFiles}}}

\* Components of the QC specifications.  One entity per subject with a T1
\* and a mask slot, in column anat:
AnatComponent ==
    [entities |-> <<"sub">>,
     name |-> <<Var("sub"), Lit("_anat")>>,
     column |-> <<Lit("anat")>>,
     image_descriptors |-> <<[desc |-> "T1"], [desc |-> "mask"]>>,
     available_ratings |-> <<"Good">>]

\* one entity per subject for the mask alone, in column mask:
MaskComponent ==
    [entities |-> <<"sub">>,
     name |-> <<Var("sub"), Lit("_mask")>>,
     column |-> <<Lit("mask")>>,
     image_descriptors |-> <<[desc |-> "mask"]>>,
     available_ratings |-> <<>>]

\* one entity per (subject, desc), whatever the file, in column anat:
DescComponent ==
    [entities |-> <<"sub", "desc">>,
     name |-> <<Var("sub"), Lit("_"), Var("desc")>>,
     column |-> <<Lit("anat")>>,
     image_descriptors |-> <<<<>>>>,
     available_ratings |-> <<"Good">>]

\* one whose column template names an attribute that is no group-by key:
UnboundComponent ==
    [entities |-> <<"sub">>,
     name |-> <<Var("sub"), Lit("_qc")>>,
     column |-> <<Lit("qc_"), Var("desc")>>,
     image_descriptors |-> <<[desc |-> "T1"]>>,
     available_ratings |-> <<>>]

RowDescription == [name |-> <<Lit("sub-"), Var("sub")>>, entities |-> <<"sub">>]

QcSpecs(pool) ==
    {[RowDescription |-> RowDescription, Components |-> c] :
        c \in SeqsUpTo(pool, MaxComponents)}

\* a database's settings with what they name: the validated content of the
\* qc_spec file and the files under base_dir
DbConfig(has_qc_spec, has_base_dir, spec_valid, qc_spec, files) ==
    [has_qc_spec |-> has_qc_spec, has_base_dir |-> has_base_dir,
     spec_valid |-> spec_valid, qc_spec |-> qc_spec, files |-> files]

OkConfigs(pool) ==
    {DbConfig(TRUE, TRUE, TRUE, q, f) : q \in QcSpecs(pool), f \in FileLists}

\* a setting is missing, or the qc_spec file fails validation
FaultyConfigs ==
    LET one == [RowDescription |-> RowDescription,
                Components |-> <<AnatComponent>>]
        none == [RowDescription |-> RowDescription, Components |-> <<>>]
        f == <<IndexFiles[1]>>
    IN {DbConfig(FALSE, TRUE, TRUE, one, f),
        DbConfig(FALSE, FALSE, TRUE, one, f),
        DbConfig(TRUE, FALSE, TRUE, one, f),
        DbConfig(TRUE, FALSE, TRUE, none, f),
        DbConfig(TRUE, TRUE, FALSE, one, f)}

\* the order of config.keys()
ConfigOrder == <<"SPINS_qc", "OPT_qc">>

ConfigKeys == SelectSeq(ConfigOrder, LAMBDA n : n \in DOMAIN config)

\* the invocations of init_db.py
Runs == {"run1", "run2"}

(***************************************************************************)
(* init_db.py: one invocation, commit by commit.  A local that is None is  *)
(* <<>>, one that is set is <<value>>.                                     *)
(***************************************************************************)
\* a process that has not started; argv is <db_name> or None
NewRun(argv) ==
    [pc |-> "main", argv |-> argv, databases |-> <<>>, db_idx |-> 0,
     qc_spec |-> <<>>, bids_files |-> <<>>, comp_idx |-> 0,
     entities |-> <<>>, component |-> NullId, rating_idx |-> 0,
     rows_left |-> {}, item_idx |-> 0, entity |-> NullId,
     raised |-> "", crash_pc |-> "", completed |-> {},
     \* history: the rows committed for the component at hand, and the
     \* IntegrityErrors that add_rownames caught
     written |-> 0, caught |-> 0]

\* a process that was never started
NoRun == [NewRun(PyNone) EXCEPT !.pc = "exit"]

CurDb(r) == runs[r].databases[runs[r].db_idx]

CurSpec(r) == runs[r].qc_spec[1]

CurComponent(r) == CurSpec(r).Components[runs[r].comp_idx]

CurItem(r) == runs[r].entities[runs[r].item_idx]

\* an exception that nothing catches ends the process
Crash(run, exc) ==
    [run EXCEPT !.pc = "crashed", !.crash_pc = run.pc, !.raised = exc]

\* build_index: the loop goes on to the next Component, or returns
NextComponent(run) ==
    IF run.comp_idx < Len(run.qc_spec[1].Components)
    THEN [run EXCEPT !.pc = "build_qc_entities", !.comp_idx = @ + 1,
                     !.written = 0]
    ELSE [run EXCEPT !.pc = "add_pipeline"]

\* main: databases = [db_name] if db_name else config.keys()
Main(r) ==
    /\ runs[r].pc = "main"
    /\ LET databases == IF runs[r].argv = PyNone THEN ConfigKeys
                        ELSE <<runs[r].argv>>
       IN runs' = [runs EXCEPT ![r] =
              [@ EXCEPT !.databases = databases,
                        !.db_idx = 1,
                        !.pc = IF databases = <<>> THEN "exit"
                               ELSE "make_database"]]
    /\ UNCHANGED <<matchVars, serveVars, csv, dbs, config, created>>

\* initialize_db: make_database and make_tables
MakeDatabase(r) ==
    /\ runs[r].pc = "make_database"
    /\ created' = created \cup {CurDb(r)}
    /\ runs' = [runs EXCEPT ![r] =
          [@ EXCEPT !.pc = "get_qc_spec", !.qc_spec = <<>>,
                    !.bids_files = <<>>, !.comp_idx = 0, !.entities = <<>>,
                    !.component = NullId, !.rating_idx = 0, !.item_idx = 0,
                    !.entity = NullId, !.written = 0]]
    /\ UNCHANGED <<matchVars, serveVars, csv, dbs, config>>

\* get_qc_spec: None without the setting; validate_config raises on a
\* specification that fails the schema
GetQcSpec(r) ==
    /\ runs[r].pc = "get_qc_spec"
    /\ LET cfg == config[CurDb(r)]
       IN runs' = [runs EXCEPT ![r] =
              IF ~cfg.has_qc_spec THEN [@ EXCEPT !.pc = "get_files"]
              ELSE IF ~cfg.spec_valid THEN Crash(@, "YamaleError")
              ELSE [@ EXCEPT !.pc = "get_files", !.qc_spec = <<cfg.qc_spec>>]]
    /\ UNCHANGED <<matchVars, serveVars, csv, dbs, config, created>>

\* get_files: None without the setting; qc_spec['ImageExtensions'] raises
\* TypeError when qc_spec is None
GetFiles(r) ==
    /\ runs[r].pc = "get_files"
    /\ LET cfg == config[CurDb(r)]
       IN runs' = [runs EXCEPT ![r] =
              IF ~cfg.has_base_dir THEN [@ EXCEPT !.pc = "build_index"]
              ELSE IF @.qc_spec = <<>> THEN Crash(@, "TypeError")
              ELSE [@ EXCEPT !.pc = "build_index", !.bids_files = <<cfg.files>>]]
    /\ UNCHANGED <<matchVars, serveVars, csv, dbs, config, created>>

\* build_index up to its loop: qc_spec['RowDescription'] raises TypeError
\* when qc_spec is None
BuildIndex(r) ==
    /\ runs[r].pc = "build_index"
    /\ runs' = [runs EXCEPT ![r] =
          IF @.qc_spec = <<>> THEN Crash(@, "TypeError")
          ELSE NextComponent(@)]
    /\ UNCHANGED <<matchVars, serveVars, csv, dbs, config, created>>

\* component.build_qc_entities(bids_files), the argument of add_records:
\* iterating None raises TypeError, an ambiguous slot ValueError
BuildQcEntitiesStep(r) ==
    /\ runs[r].pc = "build_qc_entities"
    /\ runs' = [runs EXCEPT ![r] =
          IF @.bids_files = <<>> THEN Crash(@, "TypeError")
          ELSE LET res == BuildQcEntities(CurComponent(r), @.bids_files[1])
               IN IF res.raised # "" THEN Crash(@, res.raised)
                  ELSE [@ EXCEPT !.pc = "add_component",
                                 !.entities = res.qc_entities]]
    /\ UNCHANGED <<matchVars, serveVars, csv, dbs, config, created>>

\* add_component
AddComponent(r) ==
    /\ runs[r].pc = "add_component"
    /\ dbs' = [dbs EXCEPT ![CurDb(r)] = InsertComponent(@)]
    /\ runs' = [runs EXCEPT ![r] =
          [@ EXCEPT !.component = Len(dbs[CurDb(r)].component) + 1,
                    !.written = @ + 1,
                    !.rating_idx = 1,
                    !.pc = IF CurComponent(r).available_ratings = <<>>
                           THEN "add_rownames" ELSE "add_ratings"]]
    /\ UNCHANGED <<matchVars, serveVars, csv, config, created>>

\* add_ratings: one commit per rating
AddRating(r) ==
    /\ runs[r].pc = "add_ratings"
    /\ LET ratings == CurComponent(r).available_ratings
           i == runs[r].rating_idx
       IN /\ dbs' = [dbs EXCEPT ![CurDb(r)] =
                 InsertRating(@, ratings[i], runs[r].component)]
          /\ runs' = [runs EXCEPT ![r] =
                 [@ EXCEPT !.rating_idx = i + 1,
                           !.written = @ + 1,
                           !.pc = IF i < Len(ratings) THEN "add_ratings"
                                  ELSE "add_rownames"]]
    /\ UNCHANGED <<matchVars, serveVars, csv, config, created>>

\* add_rownames: unique_rows
AddRownames(r) ==
    /\ runs[r].pc = "add_rownames"
    /\ LET unique_rows == UniqueRows(RowTpl(CurSpec(r)),
                                     runs[r].entities)
       IN runs' = [runs EXCEPT ![r] =
              IF unique_rows.raised # "" THEN Crash(@, unique_rows.raised)
              ELSE [@ EXCEPT !.rows_left = unique_rows.names,
                             !.pc = IF unique_rows.names = {}
                                    THEN "add_colnames" ELSE "add_row"]]
    /\ UNCHANGED <<matchVars, serveVars, csv, dbs, config, created>>

\* add_rownames: one turn of the loop over the set, in any order; an
\* IntegrityError is caught and the session rolled back
AddRow(r) ==
    /\ runs[r].pc = "add_row"
    /\ \E row \in runs[r].rows_left :
          LET res == InsertTableRow(dbs[CurDb(r)], row)
          IN /\ dbs' = [dbs EXCEPT ![CurDb(r)] = res.db]
             /\ runs' = [runs EXCEPT ![r] =
                    [@ EXCEPT !.rows_left = @ \ {row},
                              !.written = IF res.raised = "" THEN @ + 1 ELSE @,
                              !.caught = IF res.raised = "" THEN @ ELSE @ + 1,
                              !.pc = IF runs[r].rows_left = {row}
                                     THEN "add_colnames" ELSE "add_row"]]
    /\ UNCHANGED <<matchVars, serveVars, csv, config, created>>

\* add_colnames: every column in one commit, nothing caught
AddColnames(r) ==
    /\ runs[r].pc = "add_colnames"
    /\ LET unique_cols == UniqueCols(runs[r].entities)
           res == InsertTableColumns(dbs[CurDb(r)], unique_cols.names)
       IN IF unique_cols.raised # ""
          THEN /\ runs' = [runs EXCEPT ![r] = Crash(@, unique_cols.raised)]
               /\ dbs' = dbs
          ELSE IF res.raised # ""
          THEN /\ runs' = [runs EXCEPT ![r] = Crash(@, res.raised)]
               /\ dbs' = dbs
          ELSE /\ dbs' = [dbs EXCEPT ![CurDb(r)] = res.db]
               /\ runs' = [runs EXCEPT ![r] =
                      IF @.entities = <<>> THEN NextComponent(@)
                      ELSE [@ EXCEPT !.pc = "add_entity", !.item_idx = 1,
                                     !.written =
                                         @ + Cardinality(unique_cols.names)]]
    /\ UNCHANGED <<matchVars, serveVars, csv, config, created>>

\* add_entity
AddEntity(r) ==
    /\ runs[r].pc = "add_entity"
    /\ LET e == CurItem(r)
           name == QcName(e)
           rowname == MakeRowname(RowTpl(CurSpec(r)), e.entities)
           columnname == QcColumnName(e)
           res == InsertEntity(dbs[CurDb(r)], name.value, runs[r].component,
                               rowname.value, columnname.value)
       IN IF name.raised # "" \/ rowname.raised # "" \/ columnname.raised # ""
          THEN /\ runs' = [runs EXCEPT ![r] = Crash(@, "KeyError")]
               /\ dbs' = dbs
          ELSE IF res.raised # ""
          THEN /\ runs' = [runs EXCEPT ![r] = Crash(@, res.raised)]
               /\ dbs' = dbs
          ELSE /\ dbs' = [dbs EXCEPT ![CurDb(r)] = res.db]
               /\ runs' = [runs EXCEPT ![r] =
                      [@ EXCEPT !.pc = "add_images",
                                !.entity = Len(dbs[CurDb(r)].entity) + 1,
                                !.written = @ + 1]]
    /\ UNCHANGED <<matchVars, serveVars, csv, config, created>>

\* add_images: every image of the entity in one commit, nothing caught
AddImages(r) ==
    /\ runs[r].pc = "add_images"
    /\ LET res == InsertImages(dbs[CurDb(r)], CurItem(r).images,
                               runs[r].entity)
       IN IF res.raised # ""
          THEN /\ runs' = [runs EXCEPT ![r] = Crash(@, res.raised)]
               /\ dbs' = [dbs EXCEPT ![CurDb(r)] = res.db]
          ELSE /\ dbs' = [dbs EXCEPT ![CurDb(r)] = res.db]
               /\ runs' = [runs EXCEPT ![r] =
                      IF @.item_idx < Len(@.entities)
                      THEN [@ EXCEPT !.pc = "add_entity",
                                     !.item_idx = @ + 1,
                                     !.written = @ + Len(CurItem(r).images)]
                      ELSE NextComponent(@)]
    /\ UNCHANGED <<matchVars, serveVars, csv, config, created>>

\* add_pipeline, and main's loop goes on to the next database
AddPipeline(r) ==
    /\ runs[r].pc = "add_pipeline"
    /\ runs' = [runs EXCEPT ![r] =
          [@ EXCEPT !.completed = @ \cup {CurDb(r)},
                    !.db_idx = IF @ < Len(runs[r].databases) THEN @ + 1 ELSE @,
                    !.pc = IF runs[r].db_idx < Len(runs[r].databases)
                           THEN "make_database" ELSE "exit"]]
    /\ UNCHANGED <<matchVars, serveVars, csv, dbs, config, created>>

Next ==
    \E r \in Runs :
        \/ Main(r)
        \/ MakeDatabase(r)
        \/ GetQcSpec(r)
        \/ GetFiles(r)
        \/ BuildIndex(r)
        \/ BuildQcEntitiesStep(r)
        \/ AddComponent(r)
        \/ AddRating(r)
        \/ AddRownames(r)
        \/ AddRow(r)
        \/ AddColnames(r)
        \/ AddEntity(r)
        \/ AddImages(r)
        \/ AddPipeline(r)

(***************************************************************************)
(* Spec: two invocations of init_db.py for one configured database, one    *)
(* after the other or interleaved at their commits.                        *)
(***************************************************************************)
Init ==
    /\ MatchIdle
    /\ ServeIdle
    /\ csv = ""
    /\ dbs = [n \in DbNames |-> EmptyDb]
    /\ created = {}
    /\ \E cfg \in OkConfigs({AnatComponent, MaskComponent}) \cup FaultyConfigs :
          config = [n \in {ConfigOrder[1]} |-> cfg]
    /\ runs = [r \in Runs |-> NewRun(PyNone)]

Spec == Init /\ [][Next]_vars

(***************************************************************************)
(* SpecMain: one invocation of init_db.py, for every configured database   *)
(* or for the one named on the command line.                               *)
(***************************************************************************)
MainInit ==
    /\ MatchIdle
    /\ ServeIdle
    /\ csv = ""
    /\ dbs = [n \in DbNames |-> EmptyDb]
    /\ created = {}
    /\ \E first \in OkConfigs({AnatComponent, MaskComponent, DescComponent,
                               UnboundComponent}) \cup FaultyConfigs :
          \E second \in {DbConfig(TRUE, TRUE, TRUE,
                                  [RowDescription |-> RowDescription,
                                   Components |-> <<c>>],
                                  <<IndexFiles[1]>>) :
                            c \in {AnatComponent, UnboundComponent}} :
              config = [n \in Range(ConfigOrder) |->
                           IF n = ConfigOrder[1] THEN first ELSE second]
    /\ \E argv \in {PyNone, ConfigOrder[2]} :
          runs = [r \in Runs |-> IF r = "run1" THEN NewRun(argv) ELSE NoRun]

SpecMain == MainInit /\ [][Next]_vars

(***************************************************************************)
(* Claims about the indexing runs.                                         *)
(***************************************************************************)
\* two files of one group satisfy the same slot descriptor of the Component
Ambiguous(component, files) ==
    \E i, j \in 1..Len(files) :
        /\ i < j
        /\ GetKey(files[i], component.entities)
               = GetKey(files[j], component.entities)
        /\ \E s \in 1..Len(component.image_descriptors) :
              /\ IsSubdict(files[i].entities, component.image_descriptors[s])
              /\ IsSubdict(files[j].entities, component.image_descriptors[s])

\* the run is at one of the Components of its specification, with its files
AtComponent(r) ==
    /\ runs[r].qc_spec # <<>>
    /\ runs[r].bids_files # <<>>
    /\ runs[r].comp_idx \in 1..Len(CurSpec(r).Components)
    /\ runs[r].pc \notin {"add_pipeline", "exit", "make_database"}

\* C1: a run that is at a Component with an ambiguous slot is about to call
\* build_qc_entities or has died of its ValueError there, and has committed
\* no Component, Rating, TableRow, TableColumn, Entity or Image for that
\* Component.
C1_AmbiguousWritesNothing ==
    \A r \in Runs :
        (AtComponent(r)
            /\ Ambiguous(CurComponent(r), runs[r].bids_files[1]))
        => /\ \/ runs[r].pc = "build_qc_entities"
              \/ /\ runs[r].pc = "crashed"
                 /\ runs[r].crash_pc = "build_qc_entities"
                 /\ runs[r].raised = "ValueError"
           /\ runs[r].written = 0

\* C1 witness: the second Component of a run has failed on an ambiguous
\* slot after the first one was committed.
C1_Witness ==
    \E r \in Runs :
        /\ AtComponent(r)
        /\ Ambiguous(CurComponent(r), runs[r].bids_files[1])
        /\ runs[r].pc = "crashed"
        /\ runs[r].raised = "ValueError"
        /\ runs[r].comp_idx = 2
        /\ dbs[CurDb(r)].component # <<>>
        /\ \A o \in Runs \ {r} : runs[o].pc = "main"

\* C2, as the specification states it: no run dies of a repeated TableRow or
\* TableColumn name; add_rownames and add_colnames absorb the violation.
C2_DuplicateNamesAbsorbed ==
    \A r \in Runs :
        ~ /\ runs[r].pc = "crashed"
          /\ runs[r].crash_pc \in {"add_row", "add_colnames"}
          /\ runs[r].raised = "IntegrityError"

\* C2, the state that refutes it: alone on the database, a run has died in
\* add_colnames of its second Component, whose column its first Component
\* had created.
C2_ColumnRepeatAborts ==
    \E r \in Runs :
        /\ runs[r].pc = "crashed"
        /\ runs[r].crash_pc = "add_colnames"
        /\ runs[r].raised = "IntegrityError"
        /\ runs[r].comp_idx = 2
        /\ \A o \in Runs \ {r} : runs[o].pc = "main"

\* the Image paths of a logical database are pairwise distinct
DistinctPaths(S) ==
    \A i, j \in 1..Len(S.image) : S.image[i].path = S.image[j].path => i = j

\* C4: no logical database ever holds two Image rows of one path; and a run
\* that commits, in add_images, a path that is in the table dies of the
\* IntegrityError and leaves the Image table as it was.
C4_ImagePathsUnique ==
    /\ [](\A n \in DbNames : DistinctPaths(dbs[n]))
    /\ [][\A r \in Runs :
            (/\ runs[r].pc = "add_images"
             /\ runs'[r] # runs[r]
             /\ \E i \in 1..Len(CurItem(r).images) :
                   \E im \in Range(dbs[CurDb(r)].image) :
                       im.path = CurItem(r).images[i])
            => /\ runs'[r].pc = "crashed"
               /\ runs'[r].raised = "IntegrityError"
               /\ dbs'[CurDb(r)].image = dbs[CurDb(r)].image]_vars

\* C4 witness: a run has died in add_images of a path that another Entity's
\* Image holds.
C4_Witness ==
    \E r \in Runs :
        /\ runs[r].pc = "crashed"
        /\ runs[r].crash_pc = "add_images"
        /\ runs[r].raised = "IntegrityError"
        /\ \E i \in 1..Len(CurItem(r).images) :
              \E im \in Range(dbs[CurDb(r)].image) :
                  /\ im.path = CurItem(r).images[i]
                  /\ im.entity_id # runs[r].entity

\* the TableRows of a name
RowsNamed(S, name) == {i \in 1..Len(S.tablerow) : S.tablerow[i].name = name}

\* the run has left add_rownames for the Component it is at
PastRownames(r) ==
    /\ AtComponent(r)
    /\ \/ runs[r].pc \in {"add_colnames", "add_entity", "add_images"}
       \/ /\ runs[r].pc = "crashed"
          /\ runs[r].crash_pc \in {"add_colnames", "add_entity", "add_images"}

\* C8: in every logical database there is at most one TableRow of a name,
\* and exactly one for every row name that an Entity references and for
\* every row name that the QCEntities of a run past add_rownames resolve
\* to; no run dies in add_rownames; and no step removes a TableRow.
C8_OneRowPerName ==
    /\ [](/\ \A n \in DbNames :
              /\ \A t \in Range(dbs[n].tablerow) :
                    Cardinality(RowsNamed(dbs[n], t.name)) = 1
              /\ \A e \in Range(dbs[n].entity) :
                    Cardinality(RowsNamed(dbs[n], e.rowname)) = 1
          /\ \A r \in Runs :
              /\ runs[r].crash_pc \notin {"add_rownames", "add_row"}
              /\ PastRownames(r) =>
                    \A i \in 1..Len(runs[r].entities) :
                        Cardinality(RowsNamed(dbs[CurDb(r)],
                            MakeRowname(RowTpl(CurSpec(r)),
                                        runs[r].entities[i].entities).value))
                            = 1)
    /\ [][\A n \in DbNames :
            /\ Len(dbs'[n].tablerow) >= Len(dbs[n].tablerow)
            /\ SubSeq(dbs'[n].tablerow, 1, Len(dbs[n].tablerow))
                  = dbs[n].tablerow]_vars

\* C8 witness: a run whose add_rownames caught an IntegrityError has gone
\* on to commit its Entities and has finished the database, which holds
\* both row names.
C8_Witness ==
    \E r \in Runs :
        /\ runs[r].caught > 0
        /\ runs[r].pc = "exit"
        /\ runs[r].completed # {}
        /\ dbs[ConfigOrder[1]].entity # <<>>
        /\ Len(dbs[ConfigOrder[1]].tablerow) = 2

\* the Entities of a Component, in the order of their ids
EntitiesOf(S, component_id) ==
    SelectSeq(S.entity, LAMBDA e : e.component_id = component_id)

\* where the run is, or was when it died
Position(r) ==
    IF runs[r].pc = "crashed" THEN runs[r].crash_pc ELSE runs[r].pc

\* the locals entities and component of the run belong to one call of
\* add_records: the one in progress, or the one that returned last
InAddRecords(r) ==
    /\ runs[r].component # NullId
    /\ runs[r].qc_spec # <<>>
    /\ \/ Position(r) \in {"add_ratings", "add_rownames", "add_row",
                           "add_colnames", "add_entity", "add_images",
                           "add_pipeline", "exit"}
       \/ Position(r) = "build_qc_entities" /\ runs[r].comp_idx >= 2

\* add_records has returned
AddRecordsReturned(r) ==
    /\ InAddRecords(r)
    /\ Position(r) \in {"build_qc_entities", "add_pipeline", "exit"}

\* how many of the QCEntities of the call have their Entity committed
EntitiesCommitted(r) ==
    CASE Position(r) \in {"add_ratings", "add_rownames", "add_row",
                          "add_colnames"} -> 0
      [] Position(r) = "add_entity" -> runs[r].item_idx - 1
      [] Position(r) = "add_images" -> runs[r].item_idx
      [] OTHER -> Len(runs[r].entities)

\* C14: the Entities of the Component of a call of add_records are, one by
\* one and in order, the QCEntities it has got to, all of them once it has
\* returned: each with the resolved name, row name and column name, comment
\* empty, failed and rating unset; and every Entity of every database
\* references a Component, a TableRow and a TableColumn that exist, also
\* after a run has died part-way.
C14_OneEntityPerQcEntity ==
    /\ \A r \in Runs :
          InAddRecords(r) =>
             LET mine == EntitiesOf(dbs[CurDb(r)], runs[r].component)
                 tpl == RowTpl(CurSpec(r))
             IN /\ Len(mine) = EntitiesCommitted(r)
                /\ AddRecordsReturned(r) => Len(mine) = Len(runs[r].entities)
                /\ \A k \in 1..Len(mine) :
                      LET q == runs[r].entities[k]
                      IN /\ mine[k].name = QcName(q).value
                         /\ mine[k].rowname
                               = MakeRowname(tpl, q.entities).value
                         /\ mine[k].columnname = QcColumnName(q).value
                         /\ mine[k].comment = ""
                         /\ mine[k].failed = PyNone
                         /\ mine[k].rating_id = NullId
    /\ \A n \in DbNames : \A e \in Range(dbs[n].entity) :
          /\ \E c \in Range(dbs[n].component) : c.id = e.component_id
          /\ \E t \in Range(dbs[n].tablerow) : t.name = e.rowname
          /\ \E t \in Range(dbs[n].tablecolumn) : t.name = e.columnname

\* C14 witness: add_records has returned for a Component of two QCEntities
\* in a run that is about to finish, and the other run has died part-way.
C14_Witness ==
    \E r \in Runs :
        /\ AddRecordsReturned(r)
        /\ runs[r].pc = "add_pipeline"
        /\ Len(runs[r].entities) = 2
        /\ Len(EntitiesOf(dbs[CurDb(r)], runs[r].component)) = 2
        /\ \E o \in Runs \ {r} :
              /\ runs[o].pc = "crashed"
              /\ runs[o].component # NullId

\* two QCEntities of the call resolve to the same row and the same column
SameCell(r, j, k) ==
    LET tpl == RowTpl(CurSpec(r))
        qs == runs[r].entities
    IN /\ MakeRowname(tpl, qs[j].entities) = MakeRowname(tpl, qs[k].entities)
       /\ QcColumnName(qs[j]) = QcColumnName(qs[k])
       /\ qs[j].entities # qs[k].entities

\* C15: QCEntities of one Component whose group keys differ but that
\* resolve to the same row name and the same column name are committed as
\* distinct Entities of that row and that column, of which the database
\* holds one TableRow and one TableColumn; add_entity raises nothing but
\* the KeyError of a template, whatever Entities are there already.
C15_SharedCellAccepted ==
    \A r \in Runs :
        /\ Position(r) = "add_entity" /\ runs[r].pc = "crashed"
              => runs[r].raised = "KeyError"
        /\ InAddRecords(r) =>
              LET S == dbs[CurDb(r)]
                  mine == EntitiesOf(S, runs[r].component)
              IN \A j, k \in 1..Len(mine) :
                    j < k /\ SameCell(r, j, k) =>
                       /\ mine[j].id # mine[k].id
                       /\ mine[j].rowname = mine[k].rowname
                       /\ mine[j].columnname = mine[k].columnname
                       /\ Cardinality({i \in DOMAIN S.tablerow :
                             S.tablerow[i].name = mine[k].rowname}) = 1
                       /\ Cardinality({i \in DOMAIN S.tablecolumn :
                             S.tablecolumn[i].name = mine[k].columnname}) = 1

\* C15 witness: add_records has returned, and two Entities of its
\* Component are in one row and one column.
C15_Witness ==
    \E r \in Runs :
        /\ AddRecordsReturned(r)
        /\ runs[r].pc \in {"add_pipeline", "exit"}
        /\ Len(runs[r].entities) = 2
        /\ SameCell(r, 1, 2)
        /\ Len(EntitiesOf(dbs[CurDb(r)], runs[r].component)) = 2

\* the paths of the Image rows of an Entity, in the order of their ids
ImagePathsOf(S, entity_id) ==
    LET rows == SelectSeq(S.image, LAMBDA im : im.entity_id = entity_id)
    IN [i \in 1..Len(rows) |-> rows[i].path]

\* add_images of the k-th QCEntity of the call raised
ImagesFailed(r, k) ==
    /\ runs[r].pc = "crashed"
    /\ runs[r].crash_pc = "add_images"
    /\ runs[r].item_idx = k

\* C16: when add_images of the k-th QCEntity fails, the run ends with the
\* IntegrityError and nothing is taken back: the Component, each of its
\* Ratings, the TableRow and TableColumn of every QCEntity, the Entities of
\* QCEntities 1..k and the images of 1..k-1 are in the database, the k-th
\* Entity has no Image, and there is no Entity for k+1 onward.
C16_PartialStateKept ==
    \A r \in Runs : \A k \in 1..MaxEntities :
        ImagesFailed(r, k) =>
           LET S == dbs[CurDb(r)]
               c == runs[r].component
               qs == runs[r].entities
               tpl == RowTpl(CurSpec(r))
               mine == EntitiesOf(S, c)
               ratings == SelectSeq(S.rating, LAMBDA x : x.component_id = c)
           IN /\ runs[r].raised = "IntegrityError"
              /\ \E x \in Range(S.component) : x.id = c
              /\ [i \in 1..Len(ratings) |-> ratings[i].name]
                    = CurComponent(r).available_ratings
              /\ \A i \in 1..Len(qs) :
                    /\ \E t \in Range(S.tablerow) :
                          t.name = MakeRowname(tpl, qs[i].entities).value
                    /\ \E t \in Range(S.tablecolumn) :
                          t.name = QcColumnName(qs[i]).value
              /\ Len(mine) = k
              /\ \A i \in 1..k : mine[i].name = QcName(qs[i]).value
              /\ \A i \in 1..(k - 1) :
                    ImagePathsOf(S, mine[i].id) = qs[i].images
              /\ ImagePathsOf(S, mine[k].id) = <<>>

\* C16 witness: add_images failed for the second of the QCEntities, and
\* the first one has its image.
C16_Witness ==
    \E r \in Runs :
        /\ ImagesFailed(r, 2)
        /\ Len(EntitiesOf(dbs[CurDb(r)], runs[r].component)) = 2
        /\ dbs[CurDb(r)].image # <<>>

\* C5, as the specification states it: when an invocation has ended, every
\* database of its list is indexed to completion, but for the one whose
\* indexing failed.
C5_OtherDatabasesIndexed ==
    \A r \in Runs :
        runs[r].pc \in {"exit", "crashed"} =>
            \A i \in 1..Len(runs[r].databases) :
                (runs[r].pc = "exit" \/ i # runs[r].db_idx)
                    => runs[r].databases[i] \in runs[r].completed

\* C5, the state that refutes it: the invocation has ended with the
\* ValueError of an ambiguous slot in the first database, and the second
\* database was never created.
C5_LaterDatabaseSkipped ==
    \E r \in Runs :
        /\ runs[r].pc = "crashed"
        /\ runs[r].raised = "ValueError"
        /\ Len(runs[r].databases) = 2
        /\ runs[r].db_idx = 1
        /\ runs[r].databases[2] \notin created
        /\ dbs[runs[r].databases[2]] = EmptyDb

(***************************************************************************)
(* views.py: the request handlers.  The handlers of one server process     *)
(* share the bind_key that set_db writes; a query or a commit runs against *)
(* the database that the bind_key of its table names at that moment.       *)
(***************************************************************************)
\* models.tables, in the order of the list
TableOrder ==
    <<"component", "rating", "tablecolumn", "tablerow", "entity", "image">>

\* set_db: db_name = f"{study}_{pipeline}"
DbName(study, pipeline) == study \o "_" \o pipeline

\* Query.get(id): the row of the primary key, or None
QueryGet(rows, id) == SelectSeq(rows, LAMBDA e : e.id = id)

\* update_rating: expected_keys
ExpectedKeys == {"rating", "comment", "failed"}

\* the clients whose requests the process serves concurrently
Clients == {"a", "b"}

\* a client that has sent nothing
NoRequest ==
    [pc |-> "idle", handler |-> "", study |-> "", pipeline |-> "",
     entity_id |-> NullId, data |-> <<>>, table_idx |-> 0, step |-> 0,
     entity |-> <<>>, changed |-> {}, body |-> <<>>, status |-> 0,
     raised |-> "",
     \* history: the databases that the queries and commits of the request
     \* ran against, whether its Query.get returned None and whether its
     \* commit raised
     routed |-> {}, missing |-> FALSE, failed_write |-> FALSE]

\* a request that has reached its view function, which set_db wraps
NewRequest(handler, study, pipeline, entity_id, data) ==
    [NoRequest EXCEPT !.pc = "set_db", !.handler = handler, !.study = study,
                      !.pipeline = pipeline, !.entity_id = entity_id,
                      !.data = data, !.table_idx = 1]

StudyPipelines == {<<"SPINS", "qc">>, <<"OPT", "qc">>}

RequestIds == {1, 2, 3}

\* request.json of update_rating: None, or the id and the other keys; a
\* rating is null (here NullId) or a value that is no Rating object
UpdateData ==
    {<<>>} \cup
    {<<[id |-> i, fields |-> f]>> :
        i \in {1, 3},
        f \in {<<>>, [name |-> "x", comment |-> "motion"],
               [comment |-> "motion", failed |-> "True"],
               [rating |-> NullId], [rating |-> 1, comment |-> "motion"]}}

\* the column behind an attribute of Entity: the rating relationship is
\* stored as rating_id
ColumnOf(k) == IF k = "rating" THEN "rating_id" ELSE k

ServeRequests ==
    {NewRequest("summary", sp[1], sp[2], NullId, <<>>) :
        sp \in StudyPipelines}
    \cup {NewRequest(h, sp[1], sp[2], i, <<>>) :
            h \in {"get_entity_info", "get_entity_view"},
            sp \in StudyPipelines, i \in RequestIds}
    \cup {NewRequest("update_rating", sp[1], sp[2], NullId, d) :
            sp \in StudyPipelines, d \in UpdateData}

\* the handler has returned, or an exception has left it
Respond(req, status, raised) ==
    [req EXCEPT !.pc = "done", !.status = status, !.raised = raised]

Receive(c) ==
    /\ requests[c].pc = "idle"
    /\ \E req \in ServeRequests : requests' = [requests EXCEPT ![c] = req]
    /\ UNCHANGED <<matchVars, indexVars, csv, dbs, bind_key>>

\* set_db: one turn of the loop over tables, then the call of func
SetDb(c) ==
    /\ requests[c].pc = "set_db"
    /\ LET req == requests[c]
       IN /\ bind_key' = [bind_key EXCEPT ![TableOrder[req.table_idx]] =
                 DbName(req.study, req.pipeline)]
          /\ requests' = [requests EXCEPT ![c] =
                 IF req.table_idx < Len(TableOrder)
                 THEN [req EXCEPT !.table_idx = @ + 1]
                 ELSE [req EXCEPT !.pc = req.handler, !.step = 1]]
    /\ UNCHANGED <<matchVars, indexVars, csv, dbs>>

\* summary: four queries, one a step
Summary(c) ==
    /\ requests[c].pc = "summary"
    /\ LET req == requests[c]
           table == CASE req.step = 2 -> "tablerow"
                      [] req.step = 3 -> "tablecolumn"
                      [] OTHER -> "entity"
           rows == dbs[bind_key[table]][table]
           n == IF req.step = 1
                THEN Len(SelectSeq(rows, LAMBDA e : e.failed = PyNone))
                ELSE Len(rows)
           next == [req EXCEPT !.body = Append(@, n),
                               !.routed = @ \cup {bind_key[table]},
                               !.step = @ + 1]
       IN requests' = [requests EXCEPT ![c] =
              IF req.step < 4 THEN next ELSE Respond(next, 200, "")]
    /\ UNCHANGED <<matchVars, indexVars, csv, dbs, bind_key>>

\* the lazy load of entity.rating: no query when rating_id is NULL
LoadRating(req) ==
    LET e == req.entity[1]
        found == QueryGet(dbs[bind_key["rating"]].rating, e.rating_id)
    IN IF e.rating_id = NullId THEN [req EXCEPT !.body = Append(@, PyNone)]
       ELSE [req EXCEPT !.routed = @ \cup {bind_key["rating"]},
                        !.body = Append(@, IF found = <<>> THEN PyNone
                                           ELSE found[1].name)]

\* the lazy load of entity.images
LoadImages(req) ==
    LET images == SelectSeq(dbs[bind_key["image"]].image,
                            LAMBDA i : i.entity_id = req.entity[1].id)
    IN [req EXCEPT !.routed = @ \cup {bind_key["image"]},
                   !.body = Append(@, [i \in 1..Len(images) |->
                                          images[i].path])]

\* get_entity_info: Query.get raises no IndexError; e.name raises
\* AttributeError when e is None
GetEntityInfo(c) ==
    /\ requests[c].pc = "get_entity_info"
    /\ LET req == requests[c]
           e == QueryGet(dbs[bind_key["entity"]].entity, req.entity_id)
       IN requests' = [requests EXCEPT ![c] =
              CASE req.step = 1 ->
                     IF e = <<>>
                     THEN Respond([req EXCEPT
                                      !.routed = @ \cup {bind_key["entity"]},
                                      !.missing = TRUE],
                                  500, "AttributeError")
                     ELSE [req EXCEPT !.routed = @ \cup {bind_key["entity"]},
                                      !.entity = e, !.body = <<e[1].name>>,
                                      !.step = 2]
                [] req.step = 2 -> [LoadRating(req) EXCEPT !.step = 3]
                [] OTHER -> Respond(LoadImages(req), 200, "")]
    /\ UNCHANGED <<matchVars, indexVars, csv, dbs, bind_key>>

\* get_entity_view: entity.component_id raises AttributeError when entity
\* is None
GetEntityView(c) ==
    /\ requests[c].pc = "get_entity_view"
    /\ LET req == requests[c]
           e == QueryGet(dbs[bind_key["entity"]].entity, req.entity_id)
           q_rating == SelectSeq(dbs[bind_key["rating"]].rating,
                          LAMBDA r : r.component_id
                                        = req.entity[1].component_id)
       IN requests' = [requests EXCEPT ![c] =
              CASE req.step = 1 ->
                     IF e = <<>>
                     THEN Respond([req EXCEPT
                                      !.routed = @ \cup {bind_key["entity"]},
                                      !.missing = TRUE],
                                  500, "AttributeError")
                     ELSE [req EXCEPT !.routed = @ \cup {bind_key["entity"]},
                                      !.entity = e, !.step = 2]
                [] req.step = 2 ->
                     [req EXCEPT !.routed = @ \cup {bind_key["rating"]},
                                 !.body = <<[i \in 1..Len(q_rating) |->
                                                q_rating[i].name]>>,
                                 !.step = 3]
                [] req.step = 3 -> [LoadRating(req) EXCEPT !.step = 4]
                [] OTHER -> Respond(LoadImages(req), 200, "")]
    /\ UNCHANGED <<matchVars, indexVars, csv, dbs, bind_key>>

\* update_rating up to entity.save(): a view that returns None makes Flask
\* raise TypeError; setattr on None raises AttributeError, and so does
\* setattr of the rating relationship to a value that is no Rating object
UpdateRatingGet(c) ==
    /\ requests[c].pc = "update_rating"
    /\ requests[c].step = 1
    /\ LET req == requests[c]
           data == req.data[1]
           update_keys == ExpectedKeys \cap DOMAIN data.fields
           e == QueryGet(dbs[bind_key["entity"]].entity, data.id)
           looked == [req EXCEPT !.routed = @ \cup {bind_key["entity"]},
                                 !.missing = (e = <<>>)]
           columns == {ColumnOf(k) : k \in update_keys}
           value == [col \in columns |->
                        data.fields[CHOOSE k \in update_keys :
                                        ColumnOf(k) = col]]
       IN requests' = [requests EXCEPT ![c] =
              IF req.data = <<>> THEN Respond(req, 500, "TypeError")
              ELSE IF e = <<>> /\ update_keys # {}
              THEN Respond(looked, 500, "AttributeError")
              ELSE IF e = <<>> THEN [looked EXCEPT !.step = 2]
              ELSE IF "rating" \in update_keys /\ data.fields.rating # NullId
              THEN Respond(looked, 500, "AttributeError")
              ELSE [looked EXCEPT
                       !.step = 2,
                       !.changed = {col \in columns : e[1][col] # value[col]},
                       !.entity = <<[col \in DOMAIN e[1] |->
                                        IF col \in columns
                                        THEN value[col] ELSE e[1][col]]>>]]
    /\ UNCHANGED <<matchVars, indexVars, csv, dbs, bind_key>>

\* a mutant: the columns changed before the failure stay written
CommitEntityPartial(S, e, changed, store_ok) ==
    LET at == {i \in 1..Len(S.entity) : S.entity[i].id = e.id}
        some == IF store_ok THEN changed
                ELSE {CHOOSE col \in changed : TRUE}
    IN [raised |-> IF at = {} THEN "StaleDataError"
                   ELSE IF store_ok THEN "" ELSE "OperationalError",
        db |-> [S EXCEPT !.entity =
                   [i \in 1..Len(@) |->
                       IF i \in at
                       THEN [k \in DOMAIN @[i] |->
                                IF k \in some THEN e[k] ELSE @[i][k]]
                       ELSE @[i]]]]

\* the commit of a changed Entity: one UPDATE of the changed columns of the
\* row of the entity's id.  It raises when there is no such row or when
\* the store fails, and then nothing is written.
CommitEntity(S, e, changed, store_ok) ==
    LET at == {i \in 1..Len(S.entity) : S.entity[i].id = e.id}
    IN IF at = {} THEN [raised |-> "StaleDataError", db |-> S]
       ELSE IF ~store_ok THEN [raised |-> "OperationalError", db |-> S]
       ELSE [raised |-> "",
             db |-> [S EXCEPT !.entity =
                        [i \in 1..Len(@) |->
                            IF i \in at
                            THEN [k \in DOMAIN @[i] |->
                                     IF k \in changed THEN e[k] ELSE @[i][k]]
                            ELSE @[i]]]]

\* update_rating: entity.save() inside try, with a bare except
UpdateRatingSave(c) ==
    /\ requests[c].pc = "update_rating"
    /\ requests[c].step = 2
    /\ LET req == requests[c]
           target == bind_key["entity"]
       IN IF req.entity = <<>>
          THEN /\ requests' = [requests EXCEPT ![c] = Respond(req, 400, "")]
               /\ dbs' = dbs
          ELSE IF req.changed = {}
          THEN /\ requests' = [requests EXCEPT ![c] = Respond(req, 200, "")]
               /\ dbs' = dbs
          ELSE \E store_ok \in BOOLEAN :
                  LET res == CommitEntity(dbs[target], req.entity[1],
                                          req.changed, store_ok)
                  IN /\ dbs' = [dbs EXCEPT ![target] = res.db]
                     /\ requests' = [requests EXCEPT ![c] =
                            IF res.raised # ""
                            THEN Respond([req EXCEPT
                                             !.routed = @ \cup {target},
                                             !.failed_write = TRUE],
                                         400, "")
                            ELSE Respond([req EXCEPT
                                             !.routed = @ \cup {target}],
                                         200, "")]
    /\ UNCHANGED <<matchVars, indexVars, csv, bind_key>>

ServeNext ==
    \E c \in Clients :
        \/ Receive(c)
        \/ SetDb(c)
        \/ Summary(c)
        \/ GetEntityInfo(c)
        \/ GetEntityView(c)
        \/ UpdateRatingGet(c)
        \/ UpdateRatingSave(c)

(***************************************************************************)
(* SpecServe: two clients, each with one request, served concurrently by   *)
(* one process over two indexed databases.                                 *)
(***************************************************************************)
\* an indexed database of n Entities in one row, the first one rated
ServeStore(n) ==
    LET s1 == InsertRating(InsertComponent(EmptyDb), "Good", 1)
        s2 == InsertTableRow(s1, "sub-01").db
        s3 == InsertTableColumns(s2, {"anat", "mask"}).db
        s4 == InsertEntity(s3, "01_anat", 1, "sub-01", "anat").db
        s5 == InsertImages(s4, <<IndexFiles[1].path>>, 1).db
        s6 == InsertEntity(s5, "01_mask", 1, "sub-01", "mask").db
        s7 == InsertImages(s6, <<IndexFiles[2].path>>, 2).db
        s8 == IF n = 0 THEN s3 ELSE IF n = 1 THEN s5 ELSE s7
    IN IF n = 0 THEN s8
       ELSE [s8 EXCEPT !.entity[1] =
                [@ EXCEPT !.rating_id = 1, !.failed = "False",
                          !.comment = "ok"]]

\* the databases that the process serves
ServeStoreOf(n) == IF n = "SPINS_qc" THEN ServeStore(2) ELSE ServeStore(1)

ServeInit ==
    /\ MatchIdle
    /\ IndexIdle
    /\ csv = ""
    /\ dbs = [n \in DbNames |-> ServeStoreOf(n)]
    /\ bind_key = [t \in Range(TableOrder) |-> PyNone]
    /\ requests = [c \in Clients |-> NoRequest]

SpecServe == ServeInit /\ [][ServeNext]_vars

(***************************************************************************)
(* Claims about the request handlers.                                      *)
(***************************************************************************)
\* C3, as the specification states it: every query and every commit of a
\* request runs against the database of the request's own (study,
\* pipeline), whatever other requests the process serves meanwhile.
C3_RoutedToOwnDatabase ==
    \A c \in Clients :
        requests[c].routed
            \subseteq {DbName(requests[c].study, requests[c].pipeline)}

\* C3, the state that refutes it: a summary for one (study, pipeline) has
\* answered 200 with counts it read, after its own set_db, from the
\* database of the other client's (study, pipeline).
C3_BindingLeaked ==
    \E c \in Clients : \E o \in Clients \ {c} :
        LET own == DbName(requests[c].study, requests[c].pipeline)
            other == DbName(requests[o].study, requests[o].pipeline)
        IN /\ requests[c].handler = "summary"
           /\ requests[c].pc = "done"
           /\ requests[c].status = 200
           /\ requests[o].pc # "idle"
           /\ own # other
           /\ other \in requests[c].routed
           /\ requests[c].body[4] = Len(dbs[other].entity)
           /\ requests[c].body[4] # Len(dbs[own].entity)

\* C6, as the specification states it: a request of get_entity_info,
\* get_entity_view or update_rating whose entity id is not in the database
\* ends in a 404 or a 400 response, and no exception leaves the handler.
C6_MissingEntityRecovered ==
    \A c \in Clients :
        (requests[c].pc = "done" /\ requests[c].missing)
            => /\ requests[c].status \in {404, 400}
               /\ requests[c].raised = ""

\* C6, the state that refutes it: with no other request in the process, a
\* get_entity_info for an id that its own database lacks has ended with an
\* AttributeError.
C6_MissingEntityRaises ==
    \E c \in Clients :
        /\ requests[c].handler = "get_entity_info"
        /\ requests[c].pc = "done"
        /\ requests[c].missing
        /\ requests[c].raised = "AttributeError"
        /\ QueryGet(dbs[DbName(requests[c].study, requests[c].pipeline)].entity,
                    requests[c].entity_id) = <<>>
        /\ \A o \in Clients \ {c} : requests[o].pc = "idle"

\* the (study, pipeline) database of a client's request
OwnDb(c) == DbName(requests[c].study, requests[c].pipeline)

\* C12, as the specification states it: whatever rating updates were
\* served, the databases differ from what they were only in columns of
\* Entities that a rating update targeted, in its own database and by its
\* id, with a key of {rating, comment, failed} that the request carried,
\* and the column holds the requested value; every other Entity and every
\* Component, Rating, TableRow, TableColumn and Image is as it was.
C12_OnlyRequestedFieldsChange ==
    \A n \in DbNames :
        LET S == dbs[n]
            S0 == ServeStoreOf(n)
        IN /\ S.component = S0.component
           /\ S.rating = S0.rating
           /\ S.tablerow = S0.tablerow
           /\ S.tablecolumn = S0.tablecolumn
           /\ S.image = S0.image
           /\ Len(S.entity) = Len(S0.entity)
           /\ \A i \in 1..Len(S.entity) : \A col \in DOMAIN S.entity[i] :
                 S.entity[i][col] # S0.entity[i][col] =>
                    \E c \in Clients :
                        /\ requests[c].handler = "update_rating"
                        /\ requests[c].data # <<>>
                        /\ OwnDb(c) = n
                        /\ requests[c].data[1].id = S.entity[i].id
                        /\ \E k \in ExpectedKeys
                                      \cap DOMAIN requests[c].data[1].fields :
                              /\ ColumnOf(k) = col
                              /\ requests[c].data[1].fields[k]
                                    = S.entity[i][col]

\* C12, the state that refutes it: a rating update for one (study,
\* pipeline) has answered 200 and left its own database as it was, and the
\* Entity of that id in the other database, for which no update was
\* requested, holds the update's comment.
C12_OtherEntityChanged ==
    \E c \in Clients : \E o \in Clients \ {c} :
        /\ requests[c].handler = "update_rating"
        /\ requests[c].pc = "done"
        /\ requests[c].status = 200
        /\ requests[o].handler \notin {"", "update_rating"}
        /\ OwnDb(o) # OwnDb(c)
        /\ dbs[OwnDb(c)] = ServeStoreOf(OwnDb(c))
        /\ \E e \in Range(dbs[OwnDb(o)].entity) :
              /\ e.id = requests[c].data[1].id
              /\ "comment" \in DOMAIN requests[c].data[1].fields
              /\ e.comment = requests[c].data[1].fields.comment
              /\ e.comment # QueryGet(ServeStoreOf(OwnDb(o)).entity, e.id)[1].comment

\* C13: a rating update whose commit raises answers 400 with no exception
\* leaving the handler, and no step of a rating update other than a commit
\* that succeeded changes any database: what is persisted for the targeted
\* Entity is what was there before the request.
C13_FailedWriteKeepsValues ==
    [][\A c \in Clients :
          (requests'[c] # requests[c]
              /\ requests[c].handler = "update_rating")
          => /\ requests'[c].failed_write =>
                   /\ requests'[c].pc = "done"
                   /\ requests'[c].status = 400
                   /\ requests'[c].raised = ""
             /\ ~(requests'[c].pc = "done" /\ requests'[c].status = 200)
                   => dbs' = dbs]_vars

\* C13 witness: with no other request in the process, an update of the
\* comment and the failed flag of an Entity of its own database has
\* answered 400 after its commit raised, and the database is as it was.
C13_Witness ==
    \E c \in Clients :
        /\ requests[c].handler = "update_rating"
        /\ requests[c].pc = "done"
        /\ requests[c].failed_write
        /\ requests[c].status = 400
        /\ requests[c].changed = {"comment", "failed"}
        /\ QueryGet(dbs[OwnDb(c)].entity, requests[c].data[1].id) # <<>>
        /\ dbs = [n \in DbNames |-> ServeStoreOf(n)]
        /\ \A o \in Clients \ {c} : requests[o].pc = "idle"

====
